---- MODULE Spec2Model ----
(***************************************************************************)
(* Model of the 0x0 alert bot: src/src/analyzer.py (the Analyzer pipeline) *)
(* and src/src/main.py (the FastAPI process with its daily scheduler and   *)
(* the manual GET /run trigger).                                           *)
(*                                                                         *)
(* Python values are encoded as follows.                                   *)
(*   None            <<>>           an optional value is a sequence of     *)
(*   a present x     <<x>>          length at most one                     *)
(*   a dict          a function whose DOMAIN is the set of present keys    *)
(*   a float         [kind |-> "float", num |-> n, den |-> d]  (exact n/d) *)
(*   a str           [kind |-> "str", s |-> "..."]                         *)
(***************************************************************************)
EXTENDS Integers, Sequences, FiniteSets, TLC

VARIABLES
    \* ---- frame of Analyzer.run_daily_analysis (analyzer.py:85-176)
    runPc,                  \* position of the run
    entered,                \* the for loop has taken a fixture of all_fixtures
    matches_checked,        \* analyzer.py:100
    global_checks_counter,  \* analyzer.py:101
    is_vip,                 \* analyzer.py:113, of the fixture being examined
    sideIdx,                \* 1 = home ('Casa'), 2 = away ('Fora')
    last_match,             \* analyzer.py:142
    stats,                  \* analyzer.py:152
    draw_rate,              \* analyzer.py:153
    defensive_trend,        \* analyzer.py:153
    \* ---- what the run did, observed from outside (requests, log, Telegram)
    seen,                   \* per run: counts of fixtures by class and of requests
    hit,                    \* per (fixture, side): what was issued for it
    prevExhausted,          \* the previous run ended with the counter at the cap
    \* ---- the process of main.py
    loopOwner,              \* coroutine running on the event-loop thread
    schedPc,                \* position of daily_scheduler
    manualPc,               \* position of the GET /run handler, then its outcome
    tod,                    \* wall clock: hour of the day
    target,                 \* main.py:31-35, as [day offset from today, hour]
    remaining,              \* hours left of the pending asyncio.sleep(wait_seconds)
    wait_seconds,           \* main.py:37, in hours
    targeted,               \* per day (offset from today): cycles that targeted its 09:00
    cycleRuns,              \* pipeline invocations of the current scheduler cycle
    failures                \* consecutive scheduled runs that raised (saturating)

frameVars == <<runPc, entered, matches_checked, global_checks_counter, is_vip,
               sideIdx, last_match, stats, draw_rate, defensive_trend>>
obsVars == <<seen, hit, prevExhausted>>
procVars == <<loopOwner, schedPc, manualPc, tod, target, remaining, wait_seconds,
              targeted, cycleRuns, failures>>
vars == <<frameVars, obsVars, procVars>>

----------------------------------------------------------------------------
\* Bounds of the model.

\* Priority-league fixtures in one response.
MaxVip == 2
\* Not-started fixtures without a league.season field in one response.
MaxSeasonless == 1
\* Non-priority fixtures in one response beyond MAX_GLOBAL_CHECKS.
MaxExtra == 2
\* Largest counter value in a statistics aggregate.
MaxStat == 1
\* Largest goal count in a last-match record.
MaxGoal == 1
\* Not-started fixtures in one response when the whole process is modelled.
ServerMaxFixtures == 1
\* Consecutive failing scheduled runs that are told apart.
MaxFailures == 2

----------------------------------------------------------------------------
\* Program constants.

MAX_GLOBAL_CHECKS == 50
TARGET_HOUR == 9
HOURS_PER_DAY == 24

VIP_LEAGUES ==
    {39, 140, 61, 78, 135, 94, 88, 71, 179, 144,
     141, 40, 262, 301, 235, 253, 556, 128, 569, 307}

\* self.vip_leagues with LEAGUE_IDS unset.
vip_leagues == VIP_LEAGUES

----------------------------------------------------------------------------
\* Python values.

None == <<>>
Some(x) == <<x>>

Float(n, d) == [kind |-> "float", num |-> n, den |-> d]
Str(s) == [kind |-> "str", s |-> s]

\* d.get(k): None when the key is missing.
Get(d, k) == IF k \in DOMAIN d THEN d[k] ELSE None

\* d.get(k, dflt) for a dict of plain integers.
GetOr(d, k, dflt) == IF k \in DOMAIN d THEN d[k] ELSE dflt

\* x == 0 in Python for x an optional integer: None == 0 is False.
PyEqZero(x) == x /= None /\ x[1] = 0

\* a / b (true division) and a * k on exact values.
TrueDiv(a, b) == Float(a.num, a.den * b)
Times(a, k) == Float(a.num * k, a.den)
IntF(n) == Float(n, 1)

\* A local that no assignment has bound yet.
Unbound == [kind |-> "unbound"]

----------------------------------------------------------------------------
\* What the two remote endpoints can answer.

GoalValues == {None} \cup {Some(n) : n \in 0..MaxGoal}
GoalKeys == {"home", "away"}
GoalDicts == UNION {[D -> GoalValues] : D \in SUBSET GoalKeys}

\* A finished fixture of a team; its 'goals' entry may itself be missing.
LastMatchRecords ==
    {[fixture |-> "FT"]} \cup {[fixture |-> "FT", goals |-> g] : g \in GoalDicts}

\* What _get_api_data returns for the 'last=1' query: None, [] or [record].
LookbackResults ==
    {None, Some(<<>>)} \cup {Some(<<r>>) : r \in LastMatchRecords}

StatKeys == {"played", "draws", "clean_sheet", "failed_to_score"}
StatDicts == UNION {[D -> 0..MaxStat] : D \in SUBSET StatKeys}

\* What _get_api_data returns for 'teams/statistics': None or the aggregate.
StatsResults == {None} \cup {Some(d) : d \in StatDicts}

\* The answers used when the whole process is modelled.
ServerLookbackResults ==
    {None,
     Some(<<[fixture |-> "FT", goals |-> [home |-> Some(0), away |-> Some(0)]]>>),
     Some(<<[fixture |-> "FT", goals |-> [home |-> Some(MaxGoal), away |-> Some(0)]]>>)}
ServerStatsResults ==
    {None,
     Some([played |-> MaxStat, draws |-> MaxStat, clean_sheet |-> MaxStat,
           failed_to_score |-> 0])}

Statuses == {"NS", "TBD", "1H", "FT"}
\* One league of VIP_LEAGUES and one outside it.
LeagueIds == {39, 2}
Fixtures == [status : Statuses, league_id : LeagueIds, season : {None, Some(2024)}]

----------------------------------------------------------------------------
\* Pure parts of the Analyzer.

\* analyzer.py:56
_get_last_fixture(fixtures) ==
    IF fixtures /= None /\ fixtures[1] /= <<>> THEN Some(fixtures[1][1]) ELSE None

\* Faulty variant of IsScoreless: a missing goal count defaults to 0.
IsScorelessDefaultZero(lm) ==
    LET goals == IF "goals" \in DOMAIN lm[1] THEN lm[1].goals ELSE <<>>
    IN  /\ "home" \in DOMAIN goals => PyEqZero(goals.home)
        /\ "away" \in DOMAIN goals => PyEqZero(goals.away)

\* analyzer.py:145-148, for a last_match that is not None
IsScoreless(lm) ==
    LET goals == IF "goals" \in DOMAIN lm[1] THEN lm[1].goals ELSE <<>>
    IN  PyEqZero(Get(goals, "home")) /\ PyEqZero(Get(goals, "away"))

\* Faulty variant of TrendFactor: floor division (//) by 2.
TrendFactorFloorDiv(clean_sheets, failed_to_score, played) ==
    Times(TrueDiv(IntF((clean_sheets + failed_to_score) \div 2), played), 100)

\* analyzer.py:72
TrendFactor(clean_sheets, failed_to_score, played) ==
    Times(TrueDiv(TrueDiv(IntF(clean_sheets + failed_to_score), 2), played), 100)

\* analyzer.py:71
DrawRate(draws, played) == Times(TrueDiv(IntF(draws), played), 100)

\* analyzer.py:62-73; the result is the pair <<draw_rate, trend>>
_calculate_real_stats(team_stats) ==
    IF team_stats = None \/ DOMAIN team_stats[1] = {}
    THEN <<Float(0, 1), Str("N/A")>>
    ELSE LET d == team_stats[1]
             played == GetOr(d, "played", 0)
             draws == GetOr(d, "draws", 0)
             clean_sheets == GetOr(d, "clean_sheet", 0)
             failed_to_score == GetOr(d, "failed_to_score", 0)
         IN  IF played = 0
             THEN <<Float(0, 1), Str("0/0")>>
             ELSE <<DrawRate(draws, played),
                    TrendFactor(clean_sheets, failed_to_score, played)>>

\* f"{x:.1f}" (analyzer.py:166-167) raises ValueError unless x is a number.
CanFormat1f(x) == x.kind = "float"

----------------------------------------------------------------------------
\* Analyzer.run_daily_analysis, analyzer.py:85-176.

SeenZero ==
    [seasonless |-> 0, vip |-> 0, nonVip |-> 0,
     nvEligible |-> 0, nvExamined |-> 0, nvCapSkipped |-> 0,
     vipEligible |-> 0, vipExamined |-> 0, nvLookbacks |-> 0]
HitZero == [detected |-> FALSE, lookbacks |-> 0, statsQ |-> 0, notifs |-> 0, warns |-> 0]

FrameInit ==
    /\ entered = FALSE
    /\ matches_checked = 0
    /\ global_checks_counter = 0
    /\ is_vip = FALSE
    /\ sideIdx = 0
    /\ last_match = None
    /\ stats = None
    /\ draw_rate = Unbound
    /\ defensive_trend = Unbound
    /\ seen = SeenZero
    /\ hit = HitZero

\* The locals of one side's iteration are rebound before they are read again.
ClearSide ==
    /\ last_match' = None
    /\ stats' = None
    /\ draw_rate' = Unbound
    /\ defensive_trend' = Unbound
    /\ hit' = HitZero

\* The frame is entered: analyzer.py:85-91, up to the global request.
RunBegin ==
    /\ runPc' = "fetch"
    /\ entered' = FALSE
    /\ matches_checked' = 0
    /\ global_checks_counter' = 0
    /\ is_vip' = FALSE
    /\ sideIdx' = 0
    /\ seen' = SeenZero
    /\ ClearSide

\* The frame is left, by return or by an exception.
FrameExit ==
    /\ runPc' = "idle"
    /\ prevExhausted' = (global_checks_counter = MAX_GLOBAL_CHECKS)
    /\ entered' = FALSE
    /\ matches_checked' = 0
    /\ global_checks_counter' = 0
    /\ is_vip' = FALSE
    /\ sideIdx' = 0
    /\ seen' = SeenZero
    /\ ClearSide

\* analyzer.py:92-101: the one global request; None and [] both end the run.
FetchFixtures ==
    /\ runPc = "fetch"
    /\ \E all_fixtures \in {"None", "[]", "fixtures"} :
          IF all_fixtures = "fixtures"
          THEN /\ runPc' = "loop"
               /\ matches_checked' = 0
               /\ global_checks_counter' = 0
          ELSE /\ runPc' = "returned"
               /\ UNCHANGED <<matches_checked, global_checks_counter>>
    /\ UNCHANGED <<entered, is_vip, sideIdx, last_match, stats, draw_rate,
                   defensive_trend, obsVars, procVars>>

\* analyzer.py:106
NotStarted(fixture) == fixture.status \in {"NS", "TBD"}

\* Faulty variant of CapReached: the test is > instead of >=.
CapReachedOffByOne(counter) == counter > MAX_GLOBAL_CHECKS

\* analyzer.py:118
CapReached(counter) == counter >= MAX_GLOBAL_CHECKS

\* The fixtures the response may still hold, within the bounds of the model:
\* only the not-started ones are counted, any number of others may come.
Admissible(fixture, limit) ==
    NotStarted(fixture) =>
        /\ seen.vip + seen.nonVip < limit
        /\ fixture.league_id \in vip_leagues => seen.vip < MaxVip
        /\ fixture.league_id \notin vip_leagues
              => seen.nonVip < MAX_GLOBAL_CHECKS + MaxExtra
        /\ fixture.season = None => seen.seasonless < MaxSeasonless

\* analyzer.py:104-134: the for loop takes the next fixture of the response,
\* up to the first team's lookback.
NextFixture(limit) ==
    /\ runPc = "loop"
    /\ \E fixture \in Fixtures :
          LET vip == fixture.league_id \in vip_leagues
              hasSeason == fixture.season /= None
              eligible == NotStarted(fixture) /\ hasSeason
              capped == NotStarted(fixture) /\ ~vip /\ CapReached(global_checks_counter)
              counted == NotStarted(fixture) /\ ~vip /\ ~capped
              examined == NotStarted(fixture) /\ ~capped /\ hasSeason
          IN  /\ Admissible(fixture, limit)
              /\ entered' = TRUE
              /\ global_checks_counter' =
                    IF counted THEN global_checks_counter + 1 ELSE global_checks_counter
              /\ matches_checked' = IF examined THEN matches_checked + 1 ELSE matches_checked
              /\ is_vip' = IF examined THEN vip ELSE FALSE
              /\ sideIdx' = IF examined THEN 1 ELSE 0
              /\ runPc' = IF examined THEN "side" ELSE "loop"
              /\ seen' = [seen EXCEPT
                    !.seasonless = IF NotStarted(fixture) /\ ~hasSeason THEN @ + 1 ELSE @,
                    !.vip = IF NotStarted(fixture) /\ vip THEN @ + 1 ELSE @,
                    !.nonVip = IF NotStarted(fixture) /\ ~vip THEN @ + 1 ELSE @,
                    !.nvEligible = IF eligible /\ ~vip THEN @ + 1 ELSE @,
                    !.nvExamined = IF examined /\ ~vip THEN @ + 1 ELSE @,
                    !.nvCapSkipped = IF eligible /\ capped THEN @ + 1 ELSE @,
                    !.vipEligible = IF eligible /\ vip THEN @ + 1 ELSE @,
                    !.vipExamined = IF examined /\ vip THEN @ + 1 ELSE @]
    /\ UNCHANGED <<last_match, stats, draw_rate, defensive_trend, hit, prevExhausted,
                   procVars>>

\* analyzer.py:176: the response is exhausted (it held at least one fixture).
EndOfList ==
    /\ runPc = "loop"
    /\ entered
    /\ runPc' = "returned"
    /\ UNCHANGED <<entered, matches_checked, global_checks_counter, is_vip, sideIdx,
                   last_match, stats, draw_rate, defensive_trend, obsVars, procVars>>

\* analyzer.py:142-151 and 172-174: one team's lookback and its classification;
\* a hit in a priority league goes on to the statistics request.
Lookback(results) ==
    /\ runPc = "side"
    /\ \E fixtures \in results :
          LET lm == _get_last_fixture(fixtures)
              scoreless == lm /= None /\ IsScoreless(lm)
          IN  /\ last_match' = lm
              /\ hit' = [HitZero EXCEPT
                    !.lookbacks = 1,
                    !.detected = scoreless,
                    !.warns = IF scoreless /\ ~is_vip THEN 1 ELSE 0]
              /\ runPc' = IF scoreless /\ is_vip THEN "stats" ELSE "sideDone"
    /\ seen' = [seen EXCEPT !.nvLookbacks = IF is_vip THEN @ ELSE @ + 1]
    /\ UNCHANGED <<entered, matches_checked, global_checks_counter, is_vip, sideIdx,
                   stats, draw_rate, defensive_trend, prevExhausted, procVars>>

\* analyzer.py:152-153: the statistics request and the derived rates.
StatsQuery(results) ==
    /\ runPc = "stats"
    /\ \E team_stats \in results :
          /\ stats' = team_stats
          /\ draw_rate' = _calculate_real_stats(team_stats)[1]
          /\ defensive_trend' = _calculate_real_stats(team_stats)[2]
    /\ hit' = [hit EXCEPT !.statsQ = @ + 1]
    /\ runPc' = "format"
    /\ UNCHANGED <<entered, matches_checked, global_checks_counter, is_vip, sideIdx,
                   last_match, seen, prevExhausted, procVars>>

\* analyzer.py:155-170: the message is built and handed to the notifier; the
\* f-string raises ValueError when a rate is not a number.
FormatAndSend ==
    /\ runPc = "format"
    /\ IF CanFormat1f(draw_rate) /\ CanFormat1f(defensive_trend)
       THEN /\ hit' = [hit EXCEPT !.notifs = @ + 1]
            /\ runPc' = "sideDone"
       ELSE /\ hit' = hit
            /\ runPc' = "raised"
    /\ UNCHANGED <<entered, matches_checked, global_checks_counter, is_vip, sideIdx,
                   last_match, stats, draw_rate, defensive_trend, seen, prevExhausted,
                   procVars>>

\* analyzer.py:137: on to the away side, or back to the for loop of line 104.
NextSide ==
    /\ runPc = "sideDone"
    /\ IF sideIdx = 1
       THEN /\ sideIdx' = 2
            /\ runPc' = "side"
            /\ is_vip' = is_vip
       ELSE /\ sideIdx' = 0
            /\ runPc' = "loop"
            /\ is_vip' = FALSE
    /\ ClearSide
    /\ UNCHANGED <<entered, matches_checked, global_checks_counter, seen,
                   prevExhausted, procVars>>

----------------------------------------------------------------------------
\* The shared Analyzer object under a sequence of calls (main.py:20, 45, 62;
\* analyzer.py:178-180), without the clock.

Invoke ==
    /\ runPc = "idle"
    /\ RunBegin
    /\ UNCHANGED <<prevExhausted, procVars>>

Return ==
    /\ runPc \in {"returned", "raised"}
    /\ FrameExit
    /\ UNCHANGED procVars

ProcIdle ==
    /\ loopOwner = "none"
    /\ schedPc = "startup"
    /\ manualPc = "idle"
    /\ tod = 0
    /\ target = [day |-> -1, hour |-> TARGET_HOUR]
    /\ remaining = 0
    /\ wait_seconds = 0
    /\ targeted = [d \in 0..1 |-> 0]
    /\ cycleRuns = 0
    /\ failures = 0

InitAnalyzer ==
    /\ runPc = "idle"
    /\ FrameInit
    /\ prevExhausted = FALSE
    /\ ProcIdle

NextAnalyzer ==
    \/ Invoke
    \/ FetchFixtures
    \/ NextFixture(MAX_GLOBAL_CHECKS + MaxExtra + MaxVip)
    \/ EndOfList
    \/ Lookback(LookbackResults)
    \/ StatsQuery(StatsResults)
    \/ FormatAndSend
    \/ NextSide
    \/ Return

SpecAnalyzer == InitAnalyzer /\ [][NextAnalyzer]_vars

----------------------------------------------------------------------------
\* The process of main.py: one event loop, the daily_scheduler task and the
\* GET /run handler. Instants are whole hours; a day offset of 0 is today.

Min(a, b) == IF a < b THEN a ELSE b
Max(a, b) == IF a > b THEN a ELSE b

\* Faulty variant of LoopIdle: the callers run the pipeline on worker threads
\* (a plain 'def' handler, or asyncio.to_thread), so nothing waits for the loop.
LoopNeverBusy == TRUE

\* A coroutine runs on the loop's one thread from one await to the next; both
\* callers of run_daily_analysis are 'async def' and call it without awaiting.
LoopIdle == loopOwner = "none"

\* Faulty variant of TargetPassed: the test is > instead of >=.
TargetPassedStrict(now) == now > TARGET_HOUR

\* main.py:34 with main.py:31: now >= today's 09:00
TargetPassed(now) == now >= TARGET_HOUR

\* main.py:30-38: the cycle's target and wait.
ComputeWait ==
    LET tgt == [day |-> IF TargetPassed(tod) THEN 1 ELSE 0, hour |-> TARGET_HOUR]
        wait == tgt.day * HOURS_PER_DAY + tgt.hour - tod
    IN  /\ target' = tgt
        /\ wait_seconds' = wait
        /\ targeted' = [targeted EXCEPT ![tgt.day] = Min(@ + 1, 2)]
        /\ cycleRuns' = 0
        /\ schedPc' = "computed"
        /\ loopOwner' = "sched"
        /\ UNCHANGED remaining

\* One hour passes. A run reads no clock after its first request, so the time
\* it takes is accounted for while it blocks in that request.
Tick ==
    /\ LoopIdle \/ runPc = "fetch"
    /\ tod' = (tod + 1) % HOURS_PER_DAY
    /\ remaining' = Max(remaining - 1, 0)
    /\ IF tod + 1 = HOURS_PER_DAY
       THEN /\ target' = [target EXCEPT !.day = Max(@ - 1, -1)]
            /\ targeted' = [d \in 0..1 |-> IF d = 0 THEN targeted[1] ELSE 0]
       ELSE UNCHANGED <<target, targeted>>
    /\ UNCHANGED <<frameVars, obsVars, loopOwner, schedPc, manualPc, wait_seconds,
                   cycleRuns, failures>>

\* main.py:26-41: the startup delay is over; first cycle.
SchedStartup ==
    /\ schedPc = "startup"
    /\ LoopIdle
    /\ ComputeWait
    /\ UNCHANGED <<frameVars, obsVars, manualPc, tod, failures>>

\* main.py:41: the sleep is awaited; the loop is free until its timer is due.
SchedSleep ==
    /\ schedPc = "computed"
    /\ loopOwner = "sched"
    /\ remaining' = Max(wait_seconds, 0)
    /\ wait_seconds' = 0
    /\ schedPc' = "sleeping"
    /\ loopOwner' = "none"
    /\ UNCHANGED <<frameVars, obsVars, manualPc, tod, target, targeted, cycleRuns,
                   failures>>

\* main.py:41-45: the sleep is over; the pipeline is called.
SchedWake ==
    /\ schedPc = "sleeping"
    /\ remaining = 0
    /\ LoopIdle
    /\ schedPc' = "running"
    /\ loopOwner' = "sched"
    /\ cycleRuns' = cycleRuns + 1
    /\ RunBegin
    /\ UNCHANGED <<prevExhausted, manualPc, tod, target, remaining, wait_seconds,
                   targeted, failures>>

\* main.py:46, then the next cycle (main.py:30-41).
SchedRunDone ==
    /\ schedPc = "running"
    /\ loopOwner = "sched"
    /\ runPc = "returned"
    /\ FrameExit
    /\ failures' = 0
    /\ ComputeWait
    /\ UNCHANGED <<manualPc, tod>>

\* Faulty variant of SchedRunFailed: no try/except around the call, so the
\* exception ends the scheduler task.
SchedRunUncaught ==
    /\ schedPc = "running"
    /\ loopOwner = "sched"
    /\ runPc = "raised"
    /\ FrameExit
    /\ schedPc' = "dead"
    /\ loopOwner' = "none"
    /\ UNCHANGED <<manualPc, tod, target, remaining, wait_seconds, targeted, cycleRuns,
                   failures>>

\* main.py:47-48: the exception is logged and dropped, then the next cycle.
SchedRunFailed ==
    /\ schedPc = "running"
    /\ loopOwner = "sched"
    /\ runPc = "raised"
    /\ FrameExit
    /\ failures' = Min(failures + 1, MaxFailures)
    /\ ComputeWait
    /\ UNCHANGED <<manualPc, tod>>

\* main.py:60-62: GET /run arrives and its handler calls the pipeline.
ManualRequest ==
    /\ manualPc /= "running"
    /\ LoopIdle
    /\ manualPc' = "running"
    /\ loopOwner' = "manual"
    /\ RunBegin
    /\ UNCHANGED <<prevExhausted, schedPc, tod, target, remaining, wait_seconds,
                   targeted, cycleRuns, failures>>

\* main.py:63: the fixed acknowledgement.
ManualReturn ==
    /\ manualPc = "running"
    /\ loopOwner = "manual"
    /\ runPc = "returned"
    /\ FrameExit
    /\ manualPc' = "ok"
    /\ loopOwner' = "none"
    /\ UNCHANGED <<schedPc, tod, target, remaining, wait_seconds, targeted, cycleRuns,
                   failures>>

\* main.py:62 has no handler around the call: the exception leaves
\* run_analysis and the caller gets an error response.
ManualError ==
    /\ manualPc = "running"
    /\ loopOwner = "manual"
    /\ runPc = "raised"
    /\ FrameExit
    /\ manualPc' = "error"
    /\ loopOwner' = "none"
    /\ UNCHANGED <<schedPc, tod, target, remaining, wait_seconds, targeted, cycleRuns,
                   failures>>

Init ==
    /\ runPc = "idle"
    /\ FrameInit
    /\ prevExhausted = FALSE
    /\ loopOwner = "none"
    /\ schedPc = "startup"
    /\ manualPc = "idle"
    /\ tod \in 0..(HOURS_PER_DAY - 1)
    /\ target = [day |-> -1, hour |-> TARGET_HOUR]
    /\ remaining = 0
    /\ wait_seconds = 0
    /\ targeted = [d \in 0..1 |-> 0]
    /\ cycleRuns = 0
    /\ failures = 0

Step ==
    \/ FetchFixtures
    \/ NextFixture(ServerMaxFixtures)
    \/ EndOfList
    \/ Lookback(ServerLookbackResults)
    \/ StatsQuery(ServerStatsResults)
    \/ FormatAndSend
    \/ NextSide

Next ==
    \/ Tick
    \/ SchedStartup
    \/ SchedSleep
    \/ SchedWake
    \/ SchedRunDone
    \/ SchedRunFailed
    \/ ManualRequest
    \/ ManualReturn
    \/ ManualError
    \/ Step

Spec == Init /\ [][Next]_vars

\* Time passes and the loop resumes a task whose timer is due although other
\* work takes the loop in between (strong fairness); a run in progress goes on,
\* since each of its requests has a timeout.
FairSpec ==
    /\ Spec
    /\ SF_vars(Tick)
    /\ SF_vars(SchedWake)
    /\ WF_vars(SchedStartup)
    /\ WF_vars(SchedSleep)
    /\ WF_vars(SchedRunDone)
    /\ WF_vars(SchedRunFailed)
    /\ WF_vars(ManualReturn)
    /\ WF_vars(ManualError)
    /\ WF_vars(Step)

----------------------------------------------------------------------------
\* Claims.

RunEnded == runPc \in {"returned", "raised"}

\* C1: at the end of a run whose response held more than MAX_GLOBAL_CHECKS
\* eligible (not started, with a season) non-priority fixtures, exactly
\* MAX_GLOBAL_CHECKS non-priority fixtures were examined and the other eligible
\* ones were skipped by the cap, and every eligible priority fixture was examined.
C1_ExactlyCapExamined ==
    RunEnded =>
        /\ seen.nvEligible > MAX_GLOBAL_CHECKS =>
              /\ seen.nvExamined = MAX_GLOBAL_CHECKS
              /\ seen.nvCapSkipped = seen.nvEligible - MAX_GLOBAL_CHECKS
        /\ seen.vipExamined = seen.vipEligible

\* C2: GET /run never gives its caller an error outcome.
C2_ManualAlwaysAcknowledges == manualPc /= "error"

\* C3: a run does not raise on a request whose result is absent; in particular
\* not on a priority-league hit whose statistics request returned None.
C3_AbsentResultNeverRaises == ~(runPc = "raised" /\ stats = None)

\* C6: when a (fixture, side) with a 0-0 last match has been dealt with, a
\* non-priority one got no statistics request, no notification and one warning,
\* and a priority one got exactly one notification.
C6_AlertsOnlyForPriority ==
    (runPc \in {"sideDone", "raised"} /\ hit.detected) =>
        IF is_vip
        THEN hit.notifs = 1
        ELSE hit.statsQ = 0 /\ hit.notifs = 0 /\ hit.warns = 1

\* Both goal counts are present and equal to 0.
BothGoalsZero(record) ==
    /\ "goals" \in DOMAIN record
    /\ GoalKeys \subseteq DOMAIN record.goals
    /\ \A k \in GoalKeys : record.goals[k] = Some(0)

\* C7: a last-match record is classified as a 0-0 hit exactly when both goal
\* counts are present and 0, and the classification itself never raises (a
\* run raises only after the statistics request of a hit).
C7_ScorelessIffBothZero ==
    /\ hit.lookbacks = 1 =>
          (hit.detected <=> (last_match /= None /\ BothGoalsZero(last_match[1])))
    /\ runPc = "raised" => hit.detected /\ hit.statsQ = 1

C7_Witness ==
    /\ runPc = "sideDone"
    /\ last_match = Some([fixture |-> "FT", goals |-> [home |-> None, away |-> Some(0)]])
    /\ ~hit.detected

\* The rational n/d equals x.
IsRatio(x, n, d) == x.kind = "float" /\ x.den /= 0 /\ x.num * d = n * x.den

\* C8: the derived rates are (0.0, "N/A") for an absent (None or empty)
\* aggregate, (0.0, "0/0") for played = 0, and otherwise 100*D/P and
\* 100*((C+F)/2)/P; no division by zero is performed.
C8_DeriverMatchesReference ==
    hit.statsQ = 1 =>
        /\ draw_rate.kind = "float" /\ draw_rate.den /= 0
        /\ defensive_trend.kind = "float" => defensive_trend.den /= 0
        /\ IF stats = None \/ DOMAIN stats[1] = {}
           THEN IsRatio(draw_rate, 0, 1) /\ defensive_trend = Str("N/A")
           ELSE LET P == GetOr(stats[1], "played", 0)
                    D == GetOr(stats[1], "draws", 0)
                    C == GetOr(stats[1], "clean_sheet", 0)
                    F == GetOr(stats[1], "failed_to_score", 0)
                IN  IF P = 0
                    THEN IsRatio(draw_rate, 0, 1) /\ defensive_trend = Str("0/0")
                    ELSE /\ IsRatio(draw_rate, 100 * D, P)
                         /\ IsRatio(defensive_trend, 100 * (C + F), 2 * P)

C8_Witness ==
    /\ runPc = "format"
    /\ stats = Some([played |-> 1, draws |-> 1, clean_sheet |-> 1, failed_to_score |-> 0])
    /\ IsRatio(draw_rate, 100, 1)
    /\ IsRatio(defensive_trend, 50, 1)

\* C10: the exploratory counter stays within 0..MAX_GLOBAL_CHECKS, a run issues
\* at most two lookbacks per counted non-priority fixture, hence at most
\* 2 * MAX_GLOBAL_CHECKS, and every run starts its loop with the counter at 0.
C10_BudgetWithinCap ==
    /\ global_checks_counter \in 0..MAX_GLOBAL_CHECKS
    /\ seen.nvLookbacks <= 2 * global_checks_counter
    /\ seen.nvLookbacks <= 2 * MAX_GLOBAL_CHECKS
    /\ (runPc = "loop" /\ ~entered) => global_checks_counter = 0

C10_Witness ==
    /\ prevExhausted
    /\ global_checks_counter = MAX_GLOBAL_CHECKS
    /\ seen.nvLookbacks = 2 * MAX_GLOBAL_CHECKS
    /\ seen.nvCapSkipped > 0

Overlap == schedPc = "running" /\ manualPc = "running"

\* C5 (as amended): a scheduled run and a manual run never overlap.
C5_NoOverlap == ~Overlap

\* C5 (as claimed): a state is reached in which both runs are in progress.
C5_OverlapHappens == <>Overlap

\* The scheduler's timer is due while a manual run holds the loop.
C5_Witness ==
    /\ manualPc = "running"
    /\ schedPc = "sleeping"
    /\ remaining = 0
    /\ runPc \in {"side", "stats", "format"}

\* now >= target
TargetReached == target.day < 0 \/ (target.day = 0 /\ tod >= target.hour)
HoursToTarget == target.day * HOURS_PER_DAY + target.hour - tod

\* C9: the wait of every cycle is in 1..24 hours, the target is the next 09:00
\* and the sleep ends no earlier, the pipeline is called once per cycle and
\* not before the target, and no day's 09:00 is targeted by two cycles.
C9_NextNineOClock ==
    /\ schedPc = "computed" =>
          /\ wait_seconds \in 1..HOURS_PER_DAY
          /\ wait_seconds = HoursToTarget
          /\ target.day = 0 <=> tod < TARGET_HOUR
          /\ cycleRuns = 0
    /\ schedPc = "sleeping" =>
          /\ cycleRuns = 0
          /\ remaining = Max(HoursToTarget, 0)
          /\ remaining <= HOURS_PER_DAY
    /\ schedPc = "running" => TargetReached /\ cycleRuns = 1
    /\ \A d \in 0..1 : targeted[d] <= 1

\* A run that took no time at 09:00 sharp is followed by a full day's wait.
C9_Witness ==
    /\ schedPc = "computed"
    /\ tod = TARGET_HOUR
    /\ wait_seconds = HOURS_PER_DAY
    /\ targeted[0] = 1
    /\ targeted[1] = 1

ScheduledRunRaised(k) == schedPc = "running" /\ runPc = "raised" /\ failures = k

\* C4: after a scheduled run that raised, whatever the number of failures
\* before it, the scheduler is waiting again, and a waiting scheduler
\* eventually starts a run.
C4_FailedRunKeepsScheduler ==
    /\ \A k \in 0..MaxFailures :
          ScheduledRunRaised(k) ~>
              (schedPc = "sleeping" /\ failures = Min(k + 1, MaxFailures))
    /\ \A k \in 1..MaxFailures :
          (schedPc = "sleeping" /\ failures = k) ~> (schedPc = "running" /\ runPc = "fetch")

\* A scheduled run starts after MaxFailures consecutive failing ones.
C4_Witness == schedPc = "running" /\ runPc = "fetch" /\ failures = MaxFailures

====
